---- MODULE Spec2Model ----
(***************************************************************************)
(* FAT-style file system simulator kept in one host file                   *)
(* (operations.py, allocation_table.py, shell.py).                         *)
(*                                                                         *)
(* Strings are sequences of one-character strings; the byte 0x00 is the    *)
(* token NUL.  The in-memory state of a FileSystemOperations object is     *)
(* (fat, root); the backing image is `disk`: NoFile, or the serialized     *)
(* allocation table followed by the blocks FAT_BLOCKS..TOTAL_BLOCKS-1,     *)
(* each seen as ROOT_ENTRIES directory records.                            *)
(***************************************************************************)
EXTENDS Integers, Sequences, FiniteSets, TLC

VARIABLES fat, root, disk, last, writes

vars == <<fat, root, disk, last, writes>>

----------------------------------------------------------------------------
(* Bounds of the model *)

\* number of blocks of the image (TOTAL_BLOCKS and FAT_ENTRIES are 2048)
MaxBlocks == 7

\* number of entries of one directory block (ROOT_ENTRIES is 32)
MaxEntries == 2

\* number of calls of one run that write the image
MaxWrites == 5

\* width of the name field of a directory record (25 in the source)
MaxName == 3

----------------------------------------------------------------------------
(* Configuration: operations.py 6-15, allocation_table.py 4-7 *)

TOTAL_BLOCKS == MaxBlocks
FAT_ENTRIES == MaxBlocks
ROOT_ENTRIES == MaxEntries
FAT_BLOCKS == 4
NAME_WIDTH == MaxName
DIR_EMPTY == 0
DIR_FILE == 1
DIR_DIRECTORY == 2
FAT_FREE == 0
FAT_EOF == 32767
FAT_RESERVED == 32766

\* the image before the backing file exists
NoFile == [exists |-> FALSE, fat |-> <<>>, blk |-> <<>>]
NUL == "NUL"
SP == " "
SLASH == "/"

Blocks == 0 .. (FAT_ENTRIES - 1)
Slots == 1 .. ROOT_ENTRIES
DataBlocks == FAT_BLOCKS .. (TOTAL_BLOCKS - 1)

----------------------------------------------------------------------------
(* Python string helpers *)

SetMin(S) == CHOOSE x \in S : \A y \in S : x <= y
SetMax(S) == CHOOSE x \in S : \A y \in S : x >= y

\* str.strip(c): drop every leading and trailing occurrence of c
StripChar(s, c) ==
    LET keep == {i \in 1 .. Len(s) : s[i] # c}
    IN  IF keep = {} THEN <<>> ELSE SubSeq(s, SetMin(keep), SetMax(keep))

\* str.strip(): the only whitespace character of the model's alphabet is SP
Strip(s) == StripChar(s, SP)

\* str.split(c)
RECURSIVE Split(_, _)
Split(s, c) ==
    LET at == {i \in 1 .. Len(s) : s[i] = c}
    IN  IF at = {} THEN <<s>>
        ELSE <<SubSeq(s, 1, SetMin(at) - 1)>>
                 \o Split(SubSeq(s, SetMin(at) + 1, Len(s)), c)

\* c.join(parts)
RECURSIVE Join(_, _)
Join(parts, c) ==
    IF Len(parts) = 0 THEN <<>>
    ELSE IF Len(parts) = 1 THEN parts[1]
    ELSE parts[1] \o <<c>> \o Join(Tail(parts), c)

\* s.ljust(25)[:25], 25 being NAME_WIDTH
Ljust(s) == [i \in 1 .. NAME_WIDTH |-> IF i <= Len(s) THEN s[i] ELSE SP]

\* path.startswith("/")
StartsWithSlash(path) == Len(path) >= 1 /\ path[1] = SLASH

\* parts[:-1]
Front(parts) == SubSeq(parts, 1, Len(parts) - 1)

----------------------------------------------------------------------------
(* DirectoryEntry and its 32-byte record *)

DirectoryEntry(filename, attributes, first_block, size) ==
    [filename |-> Ljust(filename), attributes |-> attributes,
     first_block |-> first_block, size |-> size]

\* struct.pack("25sBHI", ...): the name is cut or NUL-padded to 25 bytes
to_bytes(e) ==
    [name |-> [i \in 1 .. NAME_WIDTH |->
                  IF i <= Len(e.filename) THEN e.filename[i] ELSE NUL],
     attr |-> e.attributes % 256,
     fb   |-> <<e.first_block % 256, e.first_block \div 256>>,
     size |-> e.size]

\* struct.unpack + DirectoryEntry(filename.decode().strip(), ...)
from_bytes(b) ==
    DirectoryEntry(Strip(b.name), b.attr, b.fb[1] + 256 * b.fb[2], b.size)

\* one record of a zero-filled block
ZeroRecord ==
    [name |-> [i \in 1 .. NAME_WIDTH |-> NUL], attr |-> 0,
     fb |-> <<0, 0>>, size |-> 0]

ZeroBlock == [s \in Slots |-> ZeroRecord]

DirToBytes(dir) == [s \in Slots |-> to_bytes(dir[s])]
DirFromBytes(blk) == [s \in Slots |-> from_bytes(blk[s])]

----------------------------------------------------------------------------
(* FileAllocationTable *)

\* FileAllocationTable.__init__
NewFat == [b \in Blocks |-> FAT_FREE]

\* FileAllocationTable.initialize
FatInitialize(f) == [b \in Blocks |-> IF b < 4 THEN FAT_RESERVED ELSE f[b]]

\* the loop of find_free_block from index i on: the first index whose
\* entry is FAT_FREE, -1 once the table is exhausted
RECURSIVE ScanFree(_, _)
ScanFree(f, i) ==
    IF i >= FAT_ENTRIES THEN -1
    ELSE IF f[i] = FAT_FREE THEN i
    ELSE ScanFree(f, i + 1)

\* find_free_block scanning from the top of the table: not the program's
find_free_block_LastFit(f) ==
    IF \E b \in Blocks : f[b] = FAT_FREE
    THEN SetMax({ b \in Blocks : f[b] = FAT_FREE })
    ELSE -1

\* FileAllocationTable.find_free_block
find_free_block(f) == ScanFree(f, 0)

\* FileAllocationTable.to_bytes: one unsigned 16-bit value per entry
FatToBytes(f) == [b \in Blocks |-> <<f[b] % 256, f[b] \div 256>>]

\* FileAllocationTable.from_bytes
FatFromBytes(bs) == [b \in Blocks |-> bs[b][1] + 256 * bs[b][2]]

----------------------------------------------------------------------------
(* Image access *)

\* FileSystemOperations.__init__
NewRoot == [s \in Slots |-> DirectoryEntry(<<>>, DIR_EMPTY, 0, 0)]

\* _load_directory(block_number), for a block behind the allocation table
load_directory(d, block_number) == DirFromBytes(d.blk[block_number])

\* load_filesystem, the image existing
load_filesystem(d) ==
    [fat |-> FatFromBytes(d.fat), root |-> load_directory(d, FAT_BLOCKS)]

\* persist_changes / the tail of mkdir: rewrite the table and the root block
persist_changes(d, f, r) ==
    [exists |-> TRUE, fat |-> FatToBytes(f),
     blk |-> [d.blk EXCEPT ![FAT_BLOCKS] = DirToBytes(r)]]

\* the image initialize_filesystem writes
InitImage(f, r) ==
    [exists |-> TRUE, fat |-> FatToBytes(f),
     blk |-> [b \in DataBlocks |->
                 IF b = FAT_BLOCKS THEN DirToBytes(r) ELSE ZeroBlock]]

\* result of one call: new memory, new image, outcome, raised exception
Ret(f, r, d, res, exc) == [fat |-> f, root |-> r, disk |-> d, res |-> res, exc |-> exc]

----------------------------------------------------------------------------
(* Directory scans *)

\* first slot among `hit` in scan order, 0 when there is none
FirstSlot(hit) == IF hit = {} THEN 0 ELSE SetMin(hit)

\* the path walk of create and list_directory: descend through `parts`,
\* each found among the Directory entries of the current directory and
\* loaded from its block.  at = 0 is the in-memory root object, at = b a
\* copy read from block b; ok is FALSE when a part is not found.
RECURSIVE Walk(_, _, _, _)
Walk(d, dir, at, parts) ==
    IF Len(parts) = 0 THEN [ok |-> TRUE, dir |-> dir, at |-> at, part |-> <<>>]
    ELSE LET s == FirstSlot({k \in Slots :
                               /\ Strip(dir[k].filename) = parts[1]
                               /\ dir[k].attributes = DIR_DIRECTORY})
         IN  IF s = 0
             THEN [ok |-> FALSE, dir |-> dir, at |-> at, part |-> parts[1]]
             ELSE Walk(d, load_directory(d, dir[s].first_block),
                       dir[s].first_block, Tail(parts))

\* find_dir_entry: slot of the first non-empty entry called name, 0 if none
find_dir_entry(dir, name) ==
    FirstSlot({k \in Slots : /\ Strip(dir[k].filename) = name
                              /\ dir[k].attributes # DIR_EMPTY})

\* is_directory_empty
is_directory_empty(d, dir_entry) ==
    \A s \in Slots :
        load_directory(d, dir_entry.first_block)[s].attributes = DIR_EMPTY

\* free_fat_blocks: follow the chain, freeing every visited entry.  The
\* list index raises IndexError outside the table; `fuel` bounds the loop,
\* which does not end once it reaches a block that points to itself.
RECURSIVE free_fat_blocks(_, _, _)
free_fat_blocks(f, current_block, fuel) ==
    IF current_block = FAT_EOF THEN [fat |-> f, res |-> "ok"]
    ELSE IF current_block \notin Blocks THEN [fat |-> f, res |-> "IndexError"]
    ELSE IF fuel = 0 THEN [fat |-> f, res |-> "Hang"]
    ELSE free_fat_blocks([f EXCEPT ![current_block] = FAT_FREE],
                         f[current_block], fuel - 1)

\* remove_dir_entry: clears the first entry called name, whatever its kind;
\* the name itself stays
remove_dir_entry(dir, name) ==
    LET s == FirstSlot({k \in Slots : Strip(dir[k].filename) = name})
    IN  IF s = 0 THEN dir
        ELSE [dir EXCEPT ![s] = [@ EXCEPT !.attributes = DIR_EMPTY,
                                          !.first_block = 0, !.size = 0]]

\* parse_path, past the startswith test
parse_path(path) ==
    LET parts == Split(StripChar(path, SLASH), SLASH)
    IN  IF Len(parts) = 1 THEN [dir |-> <<SLASH>>, name |-> parts[1]]
        ELSE [dir |-> Join(Front(parts), SLASH), name |-> parts[Len(parts)]]

----------------------------------------------------------------------------
(* The operations of FileSystemOperations, as functions of the memory       *)
(* (f, r) and the image d                                                  *)

\* initialize_filesystem
initialize_filesystem(f, r, d) ==
    LET f2 == FatInitialize(f)
    IN  Ret(f2, r, InitImage(f2, r), "ok", "none")

\* load_filesystem as a call
load(f, r, d) ==
    IF ~d.exists THEN Ret(f, r, d, "NotInitialized", "FileNotFoundError")
    ELSE Ret(load_filesystem(d).fat, load_filesystem(d).root, d, "ok", "none")

\* mkdir
mkdir(path, f, r, d) ==
    IF ~StartsWithSlash(path) THEN Ret(f, r, d, "InvalidPath", "none")
    ELSE LET dir_name == StripChar(path, SLASH) IN
    IF Len(dir_name) > NAME_WIDTH THEN Ret(f, r, d, "NameTooLong", "none")
    ELSE IF ~d.exists THEN Ret(f, r, d, "NotInitialized", "FileNotFoundError")
    ELSE LET m == load_filesystem(d)
             same == {k \in Slots : Strip(m.root[k].filename) = dir_name}
             i == FirstSlot({k \in Slots : m.root[k].attributes = DIR_EMPTY})
             free_block == find_free_block(m.fat)
    IN
    IF FirstSlot(same) # 0
    THEN Ret(m.fat, m.root, d, "AlreadyExists", "none")
    ELSE IF i = 0 THEN Ret(m.fat, m.root, d, "DirectoryFull", "none")
    ELSE IF free_block = -1 THEN Ret(m.fat, m.root, d, "NoSpace", "none")
    ELSE LET f2 == [m.fat EXCEPT ![free_block] = FAT_EOF]
             r2 == [m.root EXCEPT
                       ![i] = DirectoryEntry(dir_name, DIR_DIRECTORY, free_block, 0)]
         IN  Ret(f2, r2, persist_changes(d, f2, r2), "ok", "none")

\* create_entry with the block taken and the table persisted before the
\* directory is searched for an Empty slot
create_entry_AllocatesFirst(file_name, m, w, d) ==
    LET i == FirstSlot({k \in Slots : w.dir[k].attributes = DIR_EMPTY})
        free_block == find_free_block(m.fat)
    IN
    IF free_block = -1 THEN Ret(m.fat, m.root, d, "NoSpace", "RuntimeError")
    ELSE LET f2 == [m.fat EXCEPT ![free_block] = FAT_EOF]
             r2 == IF w.at = 0 /\ i # 0
                   THEN [m.root EXCEPT
                            ![i] = [filename |-> Ljust(file_name),
                                    attributes |-> DIR_FILE,
                                    first_block |-> free_block, size |-> 0]]
                   ELSE m.root
         IN  IF i = 0
             THEN Ret(f2, m.root, persist_changes(d, f2, m.root),
                      "DirectoryFull", "RuntimeError")
             ELSE Ret(f2, r2, persist_changes(d, f2, r2), "ok", "none")

\* create, once the directory w.dir is reached: take the first Empty slot,
\* then a free block, fill the entry in and persist
create_entry(file_name, m, w, d) ==
    LET i == FirstSlot({k \in Slots : w.dir[k].attributes = DIR_EMPTY})
        free_block == find_free_block(m.fat)
    IN
    IF i = 0 THEN Ret(m.fat, m.root, d, "DirectoryFull", "RuntimeError")
    ELSE IF free_block = -1 THEN Ret(m.fat, m.root, d, "NoSpace", "RuntimeError")
    ELSE LET f2 == [m.fat EXCEPT ![free_block] = FAT_EOF]
             \* the entry object is changed in place: it belongs to self.root
             \* only when no directory was descended into
             r2 == IF w.at = 0
                   THEN [m.root EXCEPT
                            ![i] = [filename |-> Ljust(file_name),
                                    attributes |-> DIR_FILE,
                                    first_block |-> free_block, size |-> 0]]
                   ELSE m.root
         IN  Ret(f2, r2, persist_changes(d, f2, r2), "ok", "none")

\* create
create(path, f, r, d) ==
    IF ~StartsWithSlash(path) THEN Ret(f, r, d, "InvalidPath", "ValueError")
    ELSE LET parts == Split(StripChar(path, SLASH), SLASH)
             file_name == parts[Len(parts)] IN
    IF Len(file_name) > NAME_WIDTH THEN Ret(f, r, d, "NameTooLong", "ValueError")
    ELSE IF ~d.exists THEN Ret(f, r, d, "NotInitialized", "FileNotFoundError")
    ELSE LET m == load_filesystem(d)
             w == Walk(d, m.root, 0, Front(parts))
             same == {k \in Slots : /\ Strip(w.dir[k].filename) = file_name
                                     /\ w.dir[k].attributes # DIR_EMPTY}
    IN
    IF ~w.ok THEN Ret(m.fat, m.root, d, "NotFound", "FileNotFoundError")
    ELSE IF FirstSlot(same) # 0
    THEN Ret(m.fat, m.root, d, "AlreadyExists", "FileExistsError")
    ELSE create_entry(file_name, m, w, d)

\* unlink
unlink(path, f, r, d) ==
    IF ~StartsWithSlash(path) THEN Ret(f, r, d, "InvalidPath", "ValueError")
    ELSE LET pp == parse_path(path) IN
    IF ~d.exists THEN Ret(f, r, d, "NotInitialized", "FileNotFoundError")
    ELSE LET m == load_filesystem(d) IN
    \* _load_directory is handed the parent's path, a string: seek() raises
    IF pp.dir # <<SLASH>> THEN Ret(m.fat, m.root, d, "TypeError", "TypeError")
    ELSE LET s == find_dir_entry(m.root, pp.name) IN
    IF s = 0 THEN Ret(m.fat, m.root, d, "NotFound", "FileNotFoundError")
    ELSE LET dir_entry == m.root[s] IN
    IF dir_entry.attributes = DIR_DIRECTORY /\ ~is_directory_empty(d, dir_entry)
    THEN Ret(m.fat, m.root, d, "NotEmpty", "Exception")
    ELSE LET fr == IF dir_entry.first_block # 0
                   THEN free_fat_blocks(m.fat, dir_entry.first_block, FAT_ENTRIES + 1)
                   ELSE [fat |-> m.fat, res |-> "ok"]
         IN
    IF fr.res # "ok" THEN Ret(fr.fat, m.root, d, fr.res, fr.res)
    ELSE LET r2 == remove_dir_entry(m.root, pp.name)
         IN  Ret(fr.fat, r2, persist_changes(d, fr.fat, r2), "ok", "none")

\* the lines list_directory prints for a directory: name, kind, size of
\* each non-empty entry, in slot order
RECURSIVE Listing(_, _)
Listing(dir, s) ==
    IF s > ROOT_ENTRIES THEN <<>>
    ELSE (IF dir[s].attributes # DIR_EMPTY
          THEN <<[name |-> Strip(dir[s].filename),
                  kind |-> IF dir[s].attributes = DIR_DIRECTORY
                           THEN "Directory" ELSE "File",
                  size |-> dir[s].size]>>
          ELSE <<>>) \o Listing(dir, s + 1)

\* list_directory: [ok, out] for an existing image
list_directory(path, d) ==
    LET m == load_filesystem(d)
        w == IF path = <<SLASH>>
             THEN [ok |-> TRUE, dir |-> m.root]
             ELSE Walk(d, m.root, 0, Split(StripChar(path, SLASH), SLASH))
    IN  IF w.ok THEN [ok |-> TRUE, out |-> Listing(w.dir, 1)]
        ELSE [ok |-> FALSE, out |-> <<>>]

\* list_directory as a call
list(path, f, r, d) ==
    IF ~d.exists THEN Ret(f, r, d, "NotInitialized", "FileNotFoundError")
    ELSE LET m == load_filesystem(d) IN
    IF list_directory(path, d).ok THEN Ret(m.fat, m.root, d, "ok", "none")
    ELSE Ret(m.fat, m.root, d, "NotFound", "none")

\* fat_info: the three counts it prints
fat_info(f) ==
    LET used_blocks == Cardinality({b \in Blocks : f[b] # FAT_FREE})
    IN  [total_blocks |-> FAT_ENTRIES, used_blocks |-> used_blocks,
         free_blocks |-> FAT_ENTRIES - used_blocks]

----------------------------------------------------------------------------
(* The state machine: one FileSystemOperations object and its image *)

Chars(n, c) == [i \in 1 .. n |-> c]

\* paths handed to the operations
Paths ==
    { <<"/", "d">>, <<"/", "f">>, <<"/", "d", "/", "f">>, <<"/", " ", "d">>,
      <<"d">>, <<"/">> \o Chars(NAME_WIDTH + 1, "d") }

\* paths handed to list_directory
ListPaths == { <<"/">>, <<"/", "d">>, <<"/", "d", "/", "f">>, <<"d">> }

\* the command loop of FileSystemShell.run: the exceptions each command's
\* try statement catches; any other exception leaves run()
Caught(op, exc) ==
    \/ exc = "none"
    \/ op = "load" /\ exc = "FileNotFoundError"
    \/ op \in {"mkdir", "create"} /\ exc = "ValueError"
    \/ op = "unlink"

\* the loop is still reading commands: no exit command, no escaped exception
Running == last.op # "exit" /\ Caught(last.op, last.exc)

\* the calls that write the image: init, and a mkdir, create or unlink that
\* returns normally
Writes(op, res) == op = "init" \/ (op \in {"mkdir", "create", "unlink"} /\ res = "ok")

Apply(op, path, r) ==
    /\ Running
    /\ Writes(op, r.res) => writes < MaxWrites
    /\ fat' = r.fat
    /\ root' = r.root
    /\ disk' = r.disk
    /\ last' = [op |-> op, path |-> path, res |-> r.res, exc |-> r.exc]
    /\ writes' = IF Writes(op, r.res) THEN writes + 1 ELSE writes

Init ==
    /\ fat = NewFat
    /\ root = NewRoot
    /\ disk = NoFile
    /\ last = [op |-> "new", path |-> <<>>, res |-> "ok", exc |-> "none"]
    /\ writes = 0

\* a new process: a new FileSystemOperations over the image left behind
Restart ==
    /\ last.op # "new"
    /\ fat' = NewFat
    /\ root' = NewRoot
    /\ disk' = disk
    /\ last' = [op |-> "new", path |-> <<>>, res |-> "ok", exc |-> "none"]
    /\ writes' = writes

DoInit == Apply("init", <<>>, initialize_filesystem(fat, root, disk))

DoLoad == Apply("load", <<>>, load(fat, root, disk))

DoMkdir == \E p \in Paths : Apply("mkdir", p, mkdir(p, fat, root, disk))

DoCreate == \E p \in Paths : Apply("create", p, create(p, fat, root, disk))

DoUnlink == \E p \in Paths : Apply("unlink", p, unlink(p, fat, root, disk))

DoList == \E p \in ListPaths : Apply("ls", p, list(p, fat, root, disk))

DoFatInfo == Apply("fatinfo", <<>>, Ret(fat, root, disk, "ok", "none"))

\* the exit command
DoExit == Apply("exit", <<>>, Ret(fat, root, disk, "ok", "none"))

Next ==
    \/ DoInit
    \/ DoLoad
    \/ DoMkdir
    \/ DoCreate
    \/ DoUnlink
    \/ DoList
    \/ DoFatInfo
    \/ DoExit
    \/ Restart

Spec == Init /\ [][Next]_vars

TypeOK ==
    /\ fat \in [Blocks -> 0 .. 65535]
    /\ DOMAIN root = Slots
    /\ \A s \in Slots : Len(root[s].filename) = NAME_WIDTH
    /\ disk.exists => DOMAIN disk.blk = DataBlocks

----------------------------------------------------------------------------
(* Vocabulary of the claims *)

PD == <<"/", "d">>
PF == <<"/", "f">>
PDF == <<"/", "d", "/", "f">>
PBlankD == <<"/", " ", "d">>
PRoot == <<"/">>

\* what list(path) returns for the image d
ListOf(path, d) == list_directory(path, d)

\* the listing l shows an entry called name of the given kind
Shows(l, name, kind) ==
    l.ok /\ \E i \in 1 .. Len(l.out) : l.out[i].name = name /\ l.out[i].kind = kind

\* the listing l shows an entry called name
ShowsName(l, name) ==
    l.ok /\ \E i \in 1 .. Len(l.out) : l.out[i].name = name

\* the last call was op(path) and ended with res
Did(op, path, res) == last.op = op /\ last.path = path /\ last.res = res

\* the allocation table held in the image d
DiskFat(d) == FatFromBytes(d.fat)

\* C1: a successful create("/d/f") adds a File entry f to directory /d and
\* persists it in /d's block, so that list("/d") on the image contains f,
\* and leaves the entries of the root directory as they were.
C1_CreateInSubdirectoryIsPersisted ==
    [][ (last'.op = "create" /\ last'.path = PDF /\ last'.res = "ok")
          => /\ Shows(ListOf(PD, disk'), <<"f">>, "File")
             /\ load_directory(disk', FAT_BLOCKS) = load_directory(disk, FAT_BLOCKS)
      ]_vars

\* C2: right after a successful mkdir("/d"), list("/d") returns the empty
\* sequence: every slot of the new directory's block is Empty.
C2_NewDirectoryIsEmpty ==
    Did("mkdir", PD, "ok") => ListOf(PD, disk) = [ok |-> TRUE, out |-> <<>>]

\* C3: unlink of an existing file succeeds at the root and nested: the
\* unlink("/d/f") that follows a successful create("/d/f") succeeds, and
\* the unlink("/f") that follows a successful create("/f") succeeds; after
\* a successful unlink("/f") the entry f is no longer listed in the root.
C3_UnlinkOfExistingEntrySucceeds ==
    [][ /\ \A p \in {PF, PDF} :
              (Did("create", p, "ok") /\ last'.op = "unlink" /\ last'.path = p)
                  => last'.res = "ok"
        /\ (last'.op = "unlink" /\ last'.path = PF /\ last'.res = "ok")
              => ~ShowsName(ListOf(PRoot, disk'), <<"f">>)
      ]_vars

\* C4: after a successful create("/d/f"), unlink("/d") fails with NotEmpty
\* and leaves the allocation table and every directory block unchanged.
C4_NonEmptyDirectoryIsProtected ==
    [][ (Did("create", PDF, "ok") /\ last'.op = "unlink" /\ last'.path = PD)
          => last'.res = "NotEmpty" /\ disk' = disk
      ]_vars

\* C5: right after init(), whatever preceded it, list("/") returns the
\* empty sequence: the in-memory and the persisted root directory consist
\* of Empty entries only.
C5_InitEmptiesRoot ==
    last.op = "init"
        => /\ ListOf(PRoot, disk) = [ok |-> TRUE, out |-> <<>>]
           /\ \A s \in Slots : root[s].attributes = DIR_EMPTY

\* C6: right after init(), whatever preceded it, the allocation table in
\* memory and in the image has entries 0..3 RESERVED and every other entry
\* FREE, so fat_info() counts 4 used (reserved) blocks and all others free.
C6_InitResetsAllocationTable ==
    last.op = "init"
        => /\ fat = FatInitialize(NewFat)
           /\ DiskFat(disk) = FatInitialize(NewFat)
           /\ fat_info(fat).used_blocks = 4
           /\ fat_info(fat).free_blocks = FAT_ENTRIES - 4

\* C7: a successful mkdir("/d/f") adds a Directory entry f to /d and no
\* entry to the root; where /d is missing or not a directory, mkdir("/d/f")
\* fails and changes nothing.
C7_MkdirResolvesParentChain ==
    [][ (last'.op = "mkdir" /\ last'.path = PDF /\ disk.exists)
          => IF ListOf(PD, disk).ok
             THEN last'.res = "ok"
                    => /\ Shows(ListOf(PD, disk'), <<"f">>, "Directory")
                       /\ Len(ListOf(PRoot, disk').out) = Len(ListOf(PRoot, disk).out)
             ELSE last'.res # "ok" /\ disk' = disk
      ]_vars

\* C8: unlink clears the slot completely, name included, so the name can
\* be used again: after a successful unlink("/d"), with a free block left,
\* mkdir("/d") and create("/d") both succeed.
C8_NameIsReusableAfterUnlink ==
    [][ (Did("unlink", PD, "ok") /\ find_free_block(DiskFat(disk)) # -1
           /\ last'.op \in {"mkdir", "create"} /\ last'.path = PD)
          => last'.res = "ok"
      ]_vars

\* the last call left the model Loaded: it wrote the image from memory
\* (init) or got past load_filesystem
LeftLoaded ==
    \/ last.op = "init"
    \/ /\ last.op \in {"load", "ls", "mkdir", "create", "unlink"}
       /\ last.res \notin {"InvalidPath", "NameTooLong", "NotInitialized"}

\* C9: whenever a call leaves the model Loaded, a fresh load() from the
\* image reproduces the in-memory allocation table and root directory.
C9_ReloadReproducesMemory ==
    LeftLoaded => load_filesystem(disk) = [fat |-> fat, root |-> root]

\* C10: a mkdir, create or unlink that fails leaves the image as it was;
\* on a full directory or a full table create and mkdir allocate nothing,
\* in the image or in memory.
C10_FailureWritesNothing ==
    [][ (last'.op \in {"mkdir", "create", "unlink"} /\ last'.res # "ok")
          => /\ disk' = disk
             /\ last'.res \in {"DirectoryFull", "NoSpace"}
                  => fat' = DiskFat(disk)
      ]_vars

\* a create met a table without a FREE entry
C10_Witness == last.op = "create" /\ last.res = "NoSpace"

----------------------------------------------------------------------------
(* C11..C20 *)

\* the blocks met when following the table f from block b until
\* END_OF_CHAIN, a value outside the table or a block met before
RECURSIVE ChainFrom(_, _, _)
ChainFrom(f, b, seen) ==
    IF b \notin Blocks \/ b \in seen THEN seen
    ELSE ChainFrom(f, f[b], seen \cup {b})

\* the root entry unlink(path) resolves to in the image d, for a path the
\* root holds
UnlinkTarget(path, d) ==
    load_filesystem(d).root[find_dir_entry(load_filesystem(d).root, parse_path(path).name)]

\* C11: used_blocks + free_blocks = total_blocks; in a Loaded model,
\* used_blocks grows by exactly 1 on every successful create or mkdir,
\* shrinks by exactly the chain length on every successful unlink and is
\* left unchanged by every failed call.
C11_SpaceAccounting ==
    [][ (LeftLoaded /\ last'.op \in {"mkdir", "create", "unlink"})
          => LET before == fat_info(fat)
                 after == fat_info(fat')
             IN  /\ after.used_blocks + after.free_blocks = after.total_blocks
                 /\ (last'.op \in {"mkdir", "create"} /\ last'.res = "ok")
                      => after.used_blocks = before.used_blocks + 1
                 /\ (last'.op = "unlink" /\ last'.res = "ok")
                      => after.used_blocks = before.used_blocks
                           - Cardinality(ChainFrom(fat,
                                 UnlinkTarget(last'.path, disk).first_block, {}))
                 /\ last'.res # "ok" => after.used_blocks = before.used_blocks
      ]_vars

\* the root directory held in the image d
DiskRoot(d) == load_directory(d, FAT_BLOCKS)

\* no two non-Empty entries of the directory dir have the same name
UniqueNames(dir) ==
    \A s, t \in Slots :
        (s # t /\ dir[s].attributes # DIR_EMPTY /\ dir[t].attributes # DIR_EMPTY)
            => Strip(dir[s].filename) # Strip(dir[t].filename)

\* C12: no two non-Empty entries of the root directory have the same
\* name, in memory after a call that leaves the model Loaded and in the
\* image; a create or mkdir of "/d" while the root holds a non-Empty entry
\* d fails with AlreadyExists.
C12_DirectoryUniqueness ==
    [][ /\ disk'.exists => UniqueNames(DiskRoot(disk'))
        /\ (last'.op \in {"mkdir", "create"} /\ last'.path = PD /\ disk.exists
              /\ \E s \in Slots : /\ DiskRoot(disk)[s].attributes # DIR_EMPTY
                                  /\ Strip(DiskRoot(disk)[s].filename) = <<"d">>)
              => last'.res = "AlreadyExists"
      ]_vars

----------------------------------------------------------------------------
(* The allocation table on its own: find_free_block over every table *)

\* the states an entry takes in the tables drawn
EntryStates == { FAT_FREE, FAT_EOF, FAT_RESERVED }

AllocInit ==
    /\ fat \in [Blocks -> EntryStates]
    /\ root = NewRoot
    /\ disk = NoFile
    /\ last = [op |-> "new", path |-> <<>>, res |-> -1, exc |-> "none"]
    /\ writes = 0

\* a call of find_free_block(); res is the block returned
FindFree ==
    /\ last' = [op |-> "find", path |-> <<>>, res |-> find_free_block(fat),
                exc |-> "none"]
    /\ UNCHANGED <<fat, root, disk, writes>>

\* the caller marks the block it was given (operations.py, mkdir and create)
Mark ==
    /\ last.op = "find"
    /\ last.res # -1
    /\ fat' = [fat EXCEPT ![last.res] = FAT_EOF]
    /\ last' = [last EXCEPT !.op = "mark"]
    /\ UNCHANGED <<root, disk, writes>>

AllocNext ==
    \/ FindFree
    \/ Mark

SpecAlloc == AllocInit /\ [][AllocNext]_vars

\* C13: for every table find_free_block() returns the lowest index whose
\* entry is FREE, or -1 when no entry is FREE, and leaves the table as it
\* was; the call that follows the marking of a returned block returns a
\* higher index or -1.
C13_FirstFit ==
    [][ last'.op = "find"
          => LET free == { b \in Blocks : fat[b] = FAT_FREE }
             IN  /\ fat' = fat
                 /\ free = {} => last'.res = -1
                 /\ free # {} => last'.res \in free /\ \A b \in free : last'.res <= b
                 /\ (last.op = "mark" /\ last'.res # -1) => last'.res > last.res
      ]_vars

\* the call returned block 5 of a table whose lower entries are all taken,
\* some RESERVED and block 4 marked END_OF_CHAIN, with a FREE entry above
C13_Witness ==
    /\ last.op = "find"
    /\ last.res = 5
    /\ fat[0] = FAT_RESERVED
    /\ fat[4] = FAT_EOF
    /\ fat[6] = FAT_FREE

\* C14: whatever a command's operation answers, the command loop is still
\* running after it and takes the next command; only exit ends the loop.
C14_LoopSurvivesFailure == last.op # "exit" => Caught(last.op, last.exc)

----------------------------------------------------------------------------
(* The directory codec on its own: to_bytes and from_bytes over entries *)

\* the characters of the names drawn: a letter and the blank
NameChars == { "d", SP }

\* every string over NameChars of at most n characters
RECURSIVE StringsUpTo(_)
StringsUpTo(n) ==
    IF n = 0 THEN { <<>> }
    ELSE StringsUpTo(n - 1)
           \cup { Append(s, c) : s \in { t \in StringsUpTo(n - 1) : Len(t) = n - 1 },
                                c \in NameChars }

\* first_block values at the ends of one and of two bytes
CodecBlocks == { 0, 255, 256, 65535 }

\* size values
CodecSizes == { 0, 1 }

\* the entries drawn: any name of at most NAME_WIDTH characters, any kind
CodecEntries ==
    { DirectoryEntry(n, k, b, z) : n \in StringsUpTo(NAME_WIDTH),
                                   k \in { DIR_EMPTY, DIR_FILE, DIR_DIRECTORY },
                                   b \in CodecBlocks, z \in CodecSizes }

CodecInit ==
    /\ fat = NewFat
    /\ \E e \in CodecEntries : root = [NewRoot EXCEPT ![1] = e]
    /\ disk = NoFile
    /\ last = [op |-> "new", path |-> <<>>, res |-> "ok", exc |-> "none"]
    /\ writes = 0

\* the directory is written to its block, entry by entry with to_bytes
Encode ==
    /\ last.op = "new"
    /\ disk' = InitImage(fat, root)
    /\ last' = [last EXCEPT !.op = "encode"]
    /\ UNCHANGED <<fat, root, writes>>

\* the block is read back, entry by entry with from_bytes
Decode ==
    /\ last.op = "encode"
    /\ root' = load_directory(disk, FAT_BLOCKS)
    /\ last' = [last EXCEPT !.op = "decode"]
    /\ UNCHANGED <<fat, disk, writes>>

CodecNext ==
    \/ Encode
    \/ Decode

SpecCodec == CodecInit /\ [][CodecNext]_vars

\* C15: decoding the encoding of an entry gives the entry back, for every
\* name of at most NAME_WIDTH characters (leading or trailing blanks
\* included), every kind, every 16-bit first_block and every size.
C15_CodecRoundTrip == [][ last'.op = "decode" => root' = root ]_vars

\* every non-Empty entry of the directory dir starts in a data block: above
\* the allocation-table blocks 0 .. FAT_BLOCKS - 1 and the root block
StartsInDataBlocks(dir) ==
    \A s \in Slots :
        dir[s].attributes # DIR_EMPTY => dir[s].first_block > FAT_BLOCKS

\* C16: once init() has written the image, no Directory Entry, in memory
\* or in the image, has a first_block among the allocation-table blocks and
\* the root directory block: mkdir and create hand out data blocks only.
C16_MetadataBlocksNeverHandedOut ==
    disk.exists => StartsInDataBlocks(root) /\ StartsInDataBlocks(DiskRoot(disk))

\* the directory blocks of the image d reachable from the directory blocks
\* in `known`, through Directory entries, in at most n more steps
RECURSIVE DirBlocks(_, _, _)
DirBlocks(d, known, n) ==
    IF n = 0 THEN known
    ELSE DirBlocks(d,
             known \cup { load_directory(d, b)[s].first_block :
                             <<b, s>> \in { x \in known \X Slots :
                                 /\ load_directory(d, x[1])[x[2]].attributes = DIR_DIRECTORY
                                 /\ load_directory(d, x[1])[x[2]].first_block \in DataBlocks } },
             n - 1)

\* the non-Empty entries (directory block, slot) reachable from the root of
\* the image d whose chain holds block b
Owners(d, b) ==
    { x \in DirBlocks(d, {FAT_BLOCKS}, TOTAL_BLOCKS) \X Slots :
        /\ load_directory(d, x[1])[x[2]].attributes # DIR_EMPTY
        /\ b \in ChainFrom(DiskFat(d), load_directory(d, x[1])[x[2]].first_block, {}) }

\* C17: in the image, once init() has written it, every block whose table
\* entry is neither FREE nor RESERVED is in the chain of exactly one
\* non-Empty Directory Entry reachable from the root.
C17_NoBlockLeak ==
    disk.exists
        => \A b \in Blocks :
               DiskFat(disk)[b] \notin { FAT_FREE, FAT_RESERVED }
                   => Cardinality(Owners(disk, b)) = 1

\* following the table f from block b ends at END_OF_CHAIN, within n
\* steps, through entries that point to a block of the table or end the chain
RECURSIVE WellFormed(_, _, _)
WellFormed(f, b, n) ==
    /\ n > 0
    /\ b \in Blocks
    /\ f[b] \notin { FAT_FREE, FAT_RESERVED }
    /\ f[b] = FAT_EOF \/ WellFormed(f, f[b], n - 1)

\* C18: once init() has written the image, the chain of every non-Empty
\* entry of the root directory, in memory and in the image, reaches
\* END_OF_CHAIN without a cycle, without a pointer outside the table and
\* without passing through a FREE or RESERVED entry.
C18_ChainsAreWellFormed ==
    disk.exists
        => /\ \A s \in Slots :
                 root[s].attributes # DIR_EMPTY
                     => WellFormed(fat, root[s].first_block, TOTAL_BLOCKS)
           /\ \A s \in Slots :
                 DiskRoot(disk)[s].attributes # DIR_EMPTY
                     => WellFormed(DiskFat(disk), DiskRoot(disk)[s].first_block,
                                   TOTAL_BLOCKS)

----------------------------------------------------------------------------
(* free_fat_blocks on its own: every table, every first block *)

\* the values of a data block's entry in the tables drawn
ChainValues == { FAT_FREE, FAT_EOF, FAT_RESERVED } \cup DataBlocks

\* the tables drawn: the entries of the table's own blocks all RESERVED, as
\* initialize leaves them, or all FREE, as a new table has them
ChainTables ==
    { [b \in Blocks |-> IF b \in DataBlocks THEN t[b] ELSE h] :
          t \in [DataBlocks -> ChainValues], h \in { FAT_RESERVED, FAT_FREE } }

\* an entry of the root directory whose first_block is any block but 1..3
ChainInit ==
    /\ fat \in ChainTables
    /\ \E b \in DataBlocks \cup {0} :
           root = [NewRoot EXCEPT ![1] = DirectoryEntry(<<"d">>, DIR_FILE, b, 0)]
    /\ disk = NoFile
    /\ last = [op |-> "new", path |-> <<>>, res |-> "ok", exc |-> "none"]
    /\ writes = 0

\* the call free_fat_blocks(dir_entry.first_block) of unlink
FreeChain ==
    /\ last.op = "new"
    /\ LET r == free_fat_blocks(fat, root[1].first_block, FAT_ENTRIES + 1)
       IN  /\ fat' = r.fat
           /\ last' = [last EXCEPT !.op = "free", !.res = r.res]
    /\ UNCHANGED <<root, disk, writes>>

ChainNext == FreeChain

SpecChain == ChainInit /\ [][ChainNext]_vars

\* C19: on a well-formed chain free_fat_blocks ends having set exactly the
\* chain's blocks to FREE; on a chain with a cycle, a FREE or RESERVED
\* entry or a pointer outside the table it fails, without looping forever,
\* and leaves every entry outside the chain, the RESERVED ones in
\* particular, as it was.
C19_FreeChainIsGuarded ==
    [][ last'.op = "free"
          => LET first == root[1].first_block
                 chain == ChainFrom(fat, first, {})
             IN  IF WellFormed(fat, first, TOTAL_BLOCKS)
                 THEN /\ last'.res = "ok"
                      /\ fat' = [b \in Blocks |-> IF b \in chain THEN FAT_FREE
                                                                  ELSE fat[b]]
                 ELSE /\ last'.res \notin { "ok", "Hang" }
                      /\ \A b \in Blocks :
                             fat[b] = FAT_RESERVED => fat'[b] = FAT_RESERVED
      ]_vars

\* C20: mkdir, create, unlink and list of a path that does not start with
\* "/" fail with InvalidPath and leave memory and image as they were:
\* nothing is loaded, nothing is resolved.
C20_RelativePathIsRejected ==
    [][ (last'.op \in {"mkdir", "create", "unlink", "ls"} /\ ~StartsWithSlash(last'.path))
          => /\ last'.res = "InvalidPath"
             /\ UNCHANGED <<fat, root, disk>>
      ]_vars

====
